---- MODULE Spec2Model ----
(***************************************************************************)
(* Model of the diagnostic-logging registry and dispatcher of              *)
(* sdk/src/azure/core/az_log.c, and of the HTTP policy pipeline assembled  *)
(* and started by sdk/src/azure/storage/az_storage_blobs_blob_client.c.    *)
(***************************************************************************)
EXTENDS Integers, Sequences, FiniteSets, TLC

(***************************************************************************)
(* az_log.c: values                                                        *)
(***************************************************************************)

\* The sentinel that ends a classification array (az_log.c:32, az_log.c:92).
AZ_LOG_END_OF_LIST == "AZ_LOG_END_OF_LIST"

\* The classifications the switch of _az_log_classifications_are_valid accepts.
KnownClassifications ==
  { "AZ_LOG_HTTP_REQUEST", "AZ_LOG_HTTP_RESPONSE", "AZ_LOG_HTTP_RETRY",
    "AZ_LOG_MQTT_RECEIVED_TOPIC", "AZ_LOG_MQTT_RECEIVED_PAYLOAD",
    "AZ_LOG_IOT_RETRY", "AZ_LOG_IOT_SAS_TOKEN", "AZ_LOG_IOT_AZURERTOS" }

\* An az_log_classification value that is neither known nor the sentinel
\* (the "default:" branch of the switch).
UNKNOWN_CLASSIFICATION == "UNKNOWN_CLASSIFICATION"

\* Longest classification array a caller registers, sentinel included.
MaxFilterLen == 3

\* The values the entries of the callers' arrays are drawn from.
FilterEntries ==
  { "AZ_LOG_HTTP_REQUEST", "AZ_LOG_HTTP_RETRY", AZ_LOG_END_OF_LIST }

\* The classifications the callers of should_write / write pass.
ArgClassifications ==
  { "AZ_LOG_HTTP_REQUEST", "AZ_LOG_HTTP_RETRY", AZ_LOG_END_OF_LIST }

\* Caller-owned arrays of exactly n entries: n - 1 classifications, then the
\* sentinel.
Terminated(n) ==
  { a \in [1..n -> FilterEntries] :
      /\ a[n] = AZ_LOG_END_OF_LIST
      /\ \A i \in 1..(n - 1) : a[i] # AZ_LOG_END_OF_LIST }

\* Caller-owned arrays whose memory goes on after their first sentinel.
ArraysWithTail ==
  { << AZ_LOG_END_OF_LIST, "AZ_LOG_HTTP_REQUEST", AZ_LOG_END_OF_LIST >>,
    << "AZ_LOG_HTTP_RETRY", AZ_LOG_END_OF_LIST, "AZ_LOG_HTTP_REQUEST",
       AZ_LOG_END_OF_LIST >> }

\* The well-formed arrays callers register.
FilterArrays ==
  UNION { Terminated(n) : n \in 1..MaxFilterLen } \cup ArraysWithTail

\* Caller-owned arrays that hold a value outside the known set before their
\* sentinel.
MalformedArrays ==
  { << UNKNOWN_CLASSIFICATION, AZ_LOG_END_OF_LIST >>,
    << "AZ_LOG_HTTP_REQUEST", UNKNOWN_CLASSIFICATION, AZ_LOG_END_OF_LIST >> }

\* az_log_classification const* values: NULL, a caller-owned array, or the
\* address of the engine's own parameter (az_log.c:88).
NULL == [base |-> "null", arr |-> << >>]

CallerArray(a) == [base |-> "caller", arr |-> a]

AddressOfClassification(c) == [base |-> "local", arr |-> <<c>>]

\* az_log_message_fn values.
NULL_FN == "NULL"

Callbacks == { "cb1", "cb2" }

\* The message spans callers pass to _az_log_write.
AZ_SPAN_EMPTY == "AZ_SPAN_EMPTY"

Messages == { "m1", "m2" }

\* *cls for cls = p + (i - 1).  Every array the model registers holds a
\* sentinel and the local one-element array is left at its first entry, so
\* the last branch is never taken.
Deref(p, i) == IF i \in 1..Len(p.arr) THEN p.arr[i] ELSE "OUT_OF_BOUNDS"

(***************************************************************************)
(* az_log.c: state                                                         *)
(***************************************************************************)
VARIABLES
  _az_log_classifications,   \* az_log.c:19, the filter slot
  _az_log_message_callback,  \* az_log.c:20, the callback slot
  precondition_failed,       \* _az_PRECONDITION of az_log.c:55 has fired
  pc,                        \* where the caller of the engine stands
  log_it,                    \* engine parameter
  classification,            \* engine parameter
  message,                   \* engine parameter
  callback,                  \* engine local, az_log.c:75
  classifications,           \* engine local, az_log.c:76
  cls,                       \* loop cursor of az_log.c:92 (1-based offset)
  retval,                    \* value the engine returned
  invoked,                   \* callback invocations made by the current call
  snapshot,                  \* history: the pair the current call read, and
                             \*   the latest registered filter when it read
  last_set,                  \* history: argument of the latest set_classifications
  replaced_other,            \* history: that call overwrote a different filter
  watch                      \* history: one filter value followed between the two reads

logvars ==
  << _az_log_classifications, _az_log_message_callback, precondition_failed,
     pc, log_it, classification, message, callback, classifications, cls,
     retval, invoked, snapshot, last_set, replaced_other, watch >>

locals == << log_it, classification, message, callback, classifications, cls >>

registry == << _az_log_classifications, _az_log_message_callback >>

set_history == << last_set, replaced_other >>

NoSnapshot == [cb |-> NULL_FN, cl |-> NULL, set |-> NULL]

NoWatch == [f |-> NULL, held |-> FALSE]

\* The values the filter slot can hold.
FilterPointers == { NULL } \cup { CallerArray(a) : a \in FilterArrays }

LogInit ==
  /\ _az_log_classifications = NULL
  /\ _az_log_message_callback = NULL_FN
  /\ precondition_failed = FALSE
  /\ pc = "idle"
  /\ log_it = FALSE
  /\ classification = AZ_LOG_END_OF_LIST
  /\ message = AZ_SPAN_EMPTY
  /\ callback = NULL_FN
  /\ classifications = NULL
  /\ cls = 1
  /\ retval = FALSE
  /\ invoked = << >>
  /\ snapshot = NoSnapshot
  /\ last_set = NULL
  /\ replaced_other = FALSE
  /\ watch = NoWatch

(***************************************************************************)
(* az_log.c: registration                                                  *)
(***************************************************************************)

RECURSIVE ValidFrom(_, _)
\* The for loop of _az_log_classifications_are_valid from offset i on.
ValidFrom(p, i) ==
  LET entry == Deref(p, i)
  IN  IF entry = AZ_LOG_END_OF_LIST THEN TRUE
      ELSE IF entry \in KnownClassifications THEN ValidFrom(p, i + 1)
      ELSE FALSE

ValidFirstEntryOnly(p) ==
  IF p = NULL THEN TRUE
  ELSE Deref(p, 1) \in KnownClassifications \cup { AZ_LOG_END_OF_LIST }

_az_log_classifications_are_valid(p) ==
  IF p = NULL THEN TRUE ELSE ValidFrom(p, 1)

\* A registration made between the two reads of a decision: the watched
\* filter value is now held together with the callback the decision captured.
Watched(fn, p) ==
  IF pc = "read_classifications" /\ fn = callback /\ p = watch.f
    THEN [watch EXCEPT !.held = TRUE]
    ELSE watch

StoreOrClear(old, p) == IF old = p THEN NULL ELSE p

StoreFirstOnly(old, p) == IF old = NULL THEN p ELSE old

\* The store of az_log.c:56: the slot's value after it, given the value before.
StoreClassifications(old, p) == p

\* az_log_set_classifications, built with precondition checking: a failed
\* precondition does not return to the caller, so the store is not reached.
az_log_set_classifications(p) ==
  /\ ~precondition_failed
  /\ IF _az_log_classifications_are_valid(p)
       THEN /\ _az_log_classifications' =
                 StoreClassifications(_az_log_classifications, p)
            /\ last_set' = p
            /\ replaced_other' = (_az_log_classifications # p)
            /\ watch' = Watched(_az_log_message_callback, p)
            /\ UNCHANGED precondition_failed
       ELSE /\ precondition_failed' = TRUE
            /\ UNCHANGED << _az_log_classifications, set_history, watch >>
  /\ UNCHANGED << _az_log_message_callback, pc, locals, retval, invoked,
                  snapshot >>

\* az_log_set_callback
az_log_set_callback(fn) ==
  /\ ~precondition_failed
  /\ _az_log_message_callback' = fn
  /\ watch' = Watched(fn, _az_log_classifications)
  /\ UNCHANGED << _az_log_classifications, precondition_failed, pc, locals,
                  retval, invoked, snapshot, set_history >>

(***************************************************************************)
(* az_log.c: the dispatcher.  One caller runs the engine; its reads of the *)
(* two volatile slots are separate steps, so registrations interleave with *)
(* them.  A read of a slot yields the value of the latest store to it.     *)
(***************************************************************************)

\* Entry into _az_log_write_engine with the given arguments.  A program whose
\* precondition has failed starts no further call.
Enter(li, c, m) ==
  /\ pc = "idle"
  /\ ~precondition_failed
  /\ pc' = "read_callback"
  /\ log_it' = li
  /\ classification' = c
  /\ message' = m
  /\ UNCHANGED << registry, precondition_failed, callback, classifications,
                  cls, retval, invoked, snapshot, set_history, watch >>

_az_log_should_write(c) == Enter(FALSE, c, AZ_SPAN_EMPTY)

_az_log_write(c, m) == Enter(TRUE, c, m)

\* az_log.c:75.  watch starts to follow one filter value g, chosen freely.
ReadCallback ==
  /\ pc = "read_callback"
  /\ callback' = _az_log_message_callback
  /\ snapshot' = [snapshot EXCEPT !.cb = _az_log_message_callback]
  /\ \E g \in FilterPointers :
       watch' = [f |-> g, held |-> (_az_log_classifications = g)]
  /\ pc' = "read_classifications"
  /\ UNCHANGED << registry, precondition_failed, log_it, classification,
                  message, classifications, cls, retval, invoked,
                  set_history >>

\* az_log.c:76
ReadClassifications ==
  /\ pc = "read_classifications"
  /\ classifications' = _az_log_classifications
  /\ snapshot' = [snapshot EXCEPT !.cl = _az_log_classifications,
                                  !.set = last_set]
  /\ watch' = NoWatch
  /\ pc' = "check"
  /\ UNCHANGED << registry, precondition_failed, log_it, classification,
                  message, callback, cls, retval, invoked, set_history >>

NobodyEver(cb) == FALSE

\* az_log.c:78
NobodyListening(cb) == cb = NULL_FN

DefaultClosed(p, c) ==
  IF p = NULL THEN CallerArray(<< AZ_LOG_END_OF_LIST >>) ELSE p

\* az_log.c:84-90
DefaultOpen(p, c) == IF p = NULL THEN AddressOfClassification(c) ELSE p

\* az_log.c:78-90 and the loop initialisation of az_log.c:92
CheckSnapshot ==
  /\ pc = "check"
  /\ IF NobodyListening(callback)
       THEN /\ retval' = FALSE
            /\ pc' = "return"
            /\ UNCHANGED << classifications, cls >>
       ELSE /\ classifications' = DefaultOpen(classifications, classification)
            /\ cls' = 1
            /\ pc' = "scan"
            /\ UNCHANGED retval
  /\ UNCHANGED << registry, precondition_failed, log_it, classification,
                  message, callback, invoked, snapshot, set_history, watch >>

RereadSlot ==
  IF _az_log_classifications = NULL
    THEN classifications
    ELSE _az_log_classifications

\* The array the loop of az_log.c:92 walks: the local copy.
ScannedArray == classifications

MatchesFirstEntryOnly(p, i, c) == i = 1 /\ Deref(p, i) = c

\* az_log.c:95
Matches(p, i, c) == Deref(p, i) = c

CallCurrentSlot(li, cb, c, m) ==
  IF li
    THEN << [fn |-> _az_log_message_callback, classification |-> c,
             message |-> m] >>
    ELSE << >>

CallRegardless(li, cb, c, m) ==
  << [fn |-> cb, classification |-> c, message |-> m] >>

CallWithEmptyMessage(li, cb, c, m) ==
  IF li
    THEN << [fn |-> cb, classification |-> c, message |-> AZ_SPAN_EMPTY] >>
    ELSE << >>

\* az_log.c:97-100: the calls made on a match.
CallOnMatch(li, cb, c, m) ==
  IF li THEN << [fn |-> cb, classification |-> c, message |-> m] >> ELSE << >>

\* One iteration of the loop of az_log.c:92-104, or its exit to az_log.c:107.
ScanStep ==
  /\ pc = "scan"
  /\ IF Deref(ScannedArray, cls) = AZ_LOG_END_OF_LIST
       THEN /\ retval' = FALSE
            /\ pc' = "return"
            /\ UNCHANGED << cls, invoked >>
       ELSE IF Matches(ScannedArray, cls, classification)
         THEN /\ invoked' =
                   invoked \o CallOnMatch(log_it, callback, classification, message)
              /\ retval' = TRUE
              /\ pc' = "return"
              /\ UNCHANGED cls
         ELSE /\ cls' = cls + 1
              /\ UNCHANGED << retval, invoked, pc >>
  /\ UNCHANGED << registry, precondition_failed, log_it, classification,
                  message, callback, classifications, snapshot, set_history,
                  watch >>

\* The engine's value reaches the caller and its frame is gone; the caller
\* may call again.
Return ==
  /\ pc = "return"
  /\ pc' = "idle"
  /\ log_it' = FALSE
  /\ classification' = AZ_LOG_END_OF_LIST
  /\ message' = AZ_SPAN_EMPTY
  /\ callback' = NULL_FN
  /\ classifications' = NULL
  /\ cls' = 1
  /\ retval' = FALSE
  /\ invoked' = << >>
  /\ snapshot' = NoSnapshot
  /\ UNCHANGED << registry, precondition_failed, set_history, watch >>

(***************************************************************************)
(* az_storage_blobs_blob_client.c: the policy pipeline.  The client        *)
(* assembles the policy array and upload starts it; the engine             *)
(* (az_http_pipeline_process), the step to the next policy and the         *)
(* policies themselves are modelled from the specification of the pipeline *)
(* (spec sections 4.3, 4.4, 5 and 7).                                      *)
(***************************************************************************)

\* az_storage_blobs_blob_client_options_default: retry_options.max_retries.
max_retries == 5

RetryFirst(no_logging) ==
  << "retry", "apiversion", "telemetry", "credential" >>
    \o (IF no_logging THEN << >> ELSE << "logging" >>)
    \o << "transport" >>

TransportNotLast(no_logging) ==
  << "apiversion", "telemetry", "retry", "credential", "transport" >>
    \o (IF no_logging THEN << >> ELSE << "logging" >>)

SwappedPolicies(no_logging) ==
  << "telemetry", "apiversion", "retry", "credential" >>
    \o (IF no_logging THEN << >> ELSE << "logging" >>)
    \o << "transport" >>

\* The policy array az_storage_blobs_blob_client_init assembles; the logging
\* policy is left out of a build with AZ_NO_LOGGING.
BlobClientPolicies(no_logging) ==
  << "apiversion", "telemetry", "retry", "credential" >>
    \o (IF no_logging THEN << >> ELSE << "logging" >>)
    \o << "transport" >>

\* The three-policy pipeline of the ordering property: A and B mark the
\* request and delegate.
MarkerPolicies == << "A", "B", "transport" >>

AssembledPipelines ==
  { BlobClientPolicies(FALSE), BlobClientPolicies(TRUE), MarkerPolicies }

\* The calls made through one pipeline.
Runs == { "r1", "r2" }

AZ_OK == "AZ_OK"

\* A capacity error: a value did not fit its buffer.
AZ_ERROR_NOT_ENOUGH_SPACE == "AZ_ERROR_NOT_ENOUGH_SPACE"

\* The failures a policy returns without delegating.
PolicyFailures == { AZ_ERROR_NOT_ENOUGH_SPACE }

\* Transport/remote errors, signalled by the terminal policy.
TransportFailures == { "AZ_ERROR_HTTP_ADAPTER", "AZ_ERROR_HTTP_RESPONSE_OVERFLOW" }

Failed(res) == res # AZ_OK

ContentTypeBeforeLength ==
  << "url_copy", "request_init", "x-ms-blob-type", "Content-Type",
     "content_length", "Content-Length" >>

\* The steps of az_storage_blobs_blob_upload that can return a failure before
\* the pipeline is started, in their order (lines 155, 163, 173, 179, 184, 188).
UploadSteps ==
  << "url_copy", "request_init", "x-ms-blob-type", "content_length",
     "Content-Length", "Content-Type" >>

\* The headers upload has appended once step number k has failed (k = 0: none
\* has failed).
HeadersBuilt(k) ==
  LET upto == IF k = 0 THEN Len(UploadSteps) ELSE k - 1
  IN  SelectSeq(SubSeq(UploadSteps, 1, upto),
                LAMBDA h : h \in { "x-ms-blob-type", "Content-Length",
                                   "Content-Type" })

\* The endpoints callers pass to az_storage_blobs_blob_client_init.
Endpoints == { << "u", "r" >>, << "u", "r", "l" >> }

az_span_size(span) == Len(span)

\* sizeof(out_client->_internal.endpoint_buffer), in the unit of Endpoints.
EndpointBufferSize == 2

\* AZ_SPAN_FROM_BUFFER over the endpoint buffer of the compound literal of
\* az_storage_blobs_blob_client.c:68-70: the whole buffer, zero-initialised.
EmptyEndpointBuffer == [i \in 1..EndpointBufferSize |-> "NUL"]

\* The option structures and the credentials callers pass.
ClientOptions == { "options1", "options2" }

Credentials == { "credential1", "credential2" }

\* The results of _az_credential_set_scopes.
SetScopesResults == { AZ_OK, "AZ_ERROR_NOT_SUPPORTED" }

\* A client object that no initialisation has written yet.
Uninitialized ==
  [ endpoint |-> << >>, options |-> "indeterminate",
    credential |-> "indeterminate" ]

VARIABLES
  policies,       \* ref_client->_internal.pipeline._internal.policies
  run,            \* per call: the engine's stack and the request it carries
  client,         \* the other fields of the caller's client object
  init_result,    \* what the latest az_storage_blobs_blob_client_init returned
  AZ_NO_LOGGING   \* the build leaves the logging policy out

\* The caller's client object and the build it is compiled in.
clientvars == << policies, client, init_result, AZ_NO_LOGGING >>

pipevars == << run, clientvars >>

IdleRun ==
  [ phase |-> "idle",        \* idle, enter (the top policy starts), resume
                             \*   (its delegate has returned), done
    stack |-> << >>,         \* the policies entered and not yet returned
    result |-> AZ_OK,        \* the az_result last returned
    attempt |-> 0,           \* the retry policy's attempt counter
    headers |-> << >>,       \* the headers upload appended to the request
    marks |-> << >>,         \* the markers policies appended to the request
    trace |-> << >>,         \* history: the positions entered, in order
    seen |-> << >>,          \* history: the markers the transport last saw
    posts |-> << >>,         \* history: post-processing done, with the result seen
    chain_calls |-> 0,       \* history: delegations made by the retry policy
    transport_calls |-> 0,   \* history: invocations of the transport
    handed_to_retry |-> AZ_OK,   \* history: the result the retry policy last got
    produced |-> AZ_OK,      \* history: the result last produced (not passed on)
    short_circuit |-> 0 ]    \* history: the policy that last failed without delegating

NotCalled == "not called"

\* No client exists; az_log.c is compiled, so the build has logging.
PipeIdle ==
  /\ policies = << >>
  /\ client = Uninitialized
  /\ init_result = NotCalled
  /\ AZ_NO_LOGGING = FALSE
  /\ run = [r \in Runs |-> IdleRun]

\* A client whose initialisation succeeded (or the three-policy pipeline).
PipeInit ==
  /\ policies \in AssembledPipelines
  /\ client = [ endpoint |-> << "u" >>, options |-> "options1",
                credential |-> "credential1" ]
  /\ init_result = AZ_OK
  /\ AZ_NO_LOGGING = (policies = BlobClientPolicies(TRUE))
  /\ run = [r \in Runs |-> IdleRun]

ForgetfulLogging(name) ==
  IF name = "retry" THEN "retry"
  ELSE IF name = "transport" THEN "transport"
  ELSE IF name = "logging" THEN "neither delegates nor returns"
  ELSE "passthrough"

Kind(name) ==
  IF name = "retry" THEN "retry"
  ELSE IF name = "transport" THEN "transport"
  ELSE "passthrough"

SharedCursor(r) ==
  LET tops == { run[q].stack[Len(run[q].stack)] :
                  q \in { q \in Runs : run[q].stack # << >> } }
  IN  CHOOSE i \in tops : \A j \in tops : j <= i

\* The policy a run is in: the engine's position belongs to the call.
Top(r) == run[r].stack[Len(run[r].stack)]

TopKind(r) == Kind(policies[Top(r)])

\* The remaining chain handed to policy i starts at its successor.
NextPolicy(i) == i + 1

\* The top policy returns res to its caller (or to the caller of the engine).
Returning(r, res) ==
  [ run[r] EXCEPT
      !.stack = SubSeq(@, 1, Len(@) - 1),
      !.result = res,
      !.phase = IF Len(run[r].stack) = 1 THEN "done" ELSE "resume" ]

\* The top policy delegates to the remaining chain.
Delegating(r) ==
  [ run[r] EXCEPT
      !.stack = Append(@, NextPolicy(Top(r))),
      !.trace = Append(@, NextPolicy(Top(r))),
      !.phase = "enter" ]

\* az_storage_blobs_blob_upload: the request is built and, if every step
\* succeeded, az_http_pipeline_process enters the first policy.
az_storage_blobs_blob_upload(r) ==
  /\ run[r].phase = "idle"
  /\ policies # << >>
  /\ \E k \in 0..Len(UploadSteps) :
       run' = [run EXCEPT ![r] =
         IF k = 0
           THEN [ @ EXCEPT !.headers = HeadersBuilt(0),
                           !.stack = << 1 >>,
                           !.trace = << 1 >>,
                           !.phase = "enter" ]
           ELSE [ @ EXCEPT !.headers = HeadersBuilt(k),
                           !.result = AZ_ERROR_NOT_ENOUGH_SPACE,
                           !.produced = AZ_ERROR_NOT_ENOUGH_SPACE,
                           !.phase = "done" ] ]
  /\ UNCHANGED clientvars

\* A policy other than retry and transport fails without delegating.
PolicyShortCircuit(r) ==
  /\ run[r].phase = "enter"
  /\ TopKind(r) = "passthrough"
  /\ \E f \in PolicyFailures :
       run' = [run EXCEPT ![r] =
         [ Returning(r, f) EXCEPT !.produced = f,
                                  !.short_circuit = Top(r) ] ]
  /\ UNCHANGED clientvars

\* A policy other than retry and transport marks the request and delegates.
PolicyDelegate(r) ==
  /\ run[r].phase = "enter"
  /\ TopKind(r) = "passthrough"
  /\ run' = [run EXCEPT ![r] =
       [ Delegating(r) EXCEPT !.marks = Append(@, policies[Top(r)]) ] ]
  /\ UNCHANGED clientvars

MaskFailure(res) == AZ_OK

\* What a policy returns once its delegate has returned res.
PassOn(res) == res

\* A policy post-processes only a delegation that succeeded.
PostProcesses(res) == ~Failed(res)

\* A policy other than retry and transport gets its delegate's result.
PolicyResume(r) ==
  /\ run[r].phase = "resume"
  /\ TopKind(r) = "passthrough"
  /\ run' = [run EXCEPT ![r] =
       [ Returning(r, PassOn(run[r].result)) EXCEPT
           !.posts = IF PostProcesses(run[r].result)
                       THEN Append(@, [policy |-> Top(r), saw |-> run[r].result])
                       ELSE @ ] ]
  /\ UNCHANGED clientvars

\* The retry policy starts its first attempt.
RetryEnter(r) ==
  /\ run[r].phase = "enter"
  /\ TopKind(r) = "retry"
  /\ run' = [run EXCEPT ![r] =
       [ Delegating(r) EXCEPT !.attempt = 1, !.chain_calls = @ + 1 ] ]
  /\ UNCHANGED clientvars

RetriesEverything(res) == TRUE

\* The failures the retry policy recognises: transport/remote errors.
Retriable(res) == res \in TransportFailures

RetriesOnceMore(res, att) == Failed(res) /\ Retriable(res) /\ att <= max_retries

\* The retry policy re-invokes the remaining chain.
ShouldRetry(res, att) == Failed(res) /\ Retriable(res) /\ att < max_retries

\* What the retry policy returns when it stops.
RetryGivesUpWith(res, att) == res

\* The retry policy gets the result of an attempt.
RetryResume(r) ==
  /\ run[r].phase = "resume"
  /\ TopKind(r) = "retry"
  /\ run' = [run EXCEPT ![r] =
       IF ShouldRetry(run[r].result, run[r].attempt)
         THEN [ Delegating(r) EXCEPT !.attempt = @ + 1,
                                     !.chain_calls = @ + 1,
                                     !.handed_to_retry = run[r].result ]
         ELSE [ Returning(r, RetryGivesUpWith(run[r].result, run[r].attempt))
                  EXCEPT !.handed_to_retry = run[r].result ] ]
  /\ UNCHANGED clientvars

\* The transport performs the exchange and never delegates.
Transport(r) ==
  /\ run[r].phase = "enter"
  /\ TopKind(r) = "transport"
  /\ \E res \in { AZ_OK } \cup TransportFailures :
       run' = [run EXCEPT ![r] =
         [ Returning(r, res) EXCEPT !.seen = run[r].marks,
                                    !.transport_calls = @ + 1,
                                    !.produced = res ] ]
  /\ UNCHANGED clientvars

\* The caller has its outcome; it may call again.
Finish(r) ==
  /\ run[r].phase = "done"
  /\ run' = [run EXCEPT ![r] = IdleRun]
  /\ UNCHANGED clientvars

\* The client object the compound literal of lines 68-118 describes: the
\* endpoint span covers the whole, zeroed, endpoint buffer.
AssembledClient(credential, options) ==
  [ endpoint |-> EmptyEndpointBuffer, options |-> options,
    credential |-> credential ]

\* az_storage_blobs_blob_client_init.  The assignment of line 68 writes the
\* caller's object first; the size check of line 122 and the call of line 126
\* come after it.  scopes is what _az_credential_set_scopes returns.  The
\* caller initialises a client while no call is in flight through it.
az_storage_blobs_blob_client_init(endpoint, credential, options, scopes) ==
  /\ \A r \in Runs : run[r].phase = "idle"
  /\ policies' = BlobClientPolicies(AZ_NO_LOGGING)
  /\ IF az_span_size(AssembledClient(credential, options).endpoint)
          < az_span_size(endpoint)
       THEN /\ client' = AssembledClient(credential, options)
            /\ init_result' = AZ_ERROR_NOT_ENOUGH_SPACE
       ELSE /\ client' = [ AssembledClient(credential, options) EXCEPT
                             !.endpoint = endpoint ]
            /\ init_result' = scopes
  /\ UNCHANGED << run, AZ_NO_LOGGING >>

vars == << logvars, pipevars >>

Init == LogInit /\ PipeIdle

Next ==
  \/ \E a \in FilterArrays \cup MalformedArrays :
       az_log_set_classifications(CallerArray(a)) /\ UNCHANGED pipevars
  \/ az_log_set_classifications(NULL) /\ UNCHANGED pipevars
  \/ \E fn \in Callbacks \cup {NULL_FN} :
       az_log_set_callback(fn) /\ UNCHANGED pipevars
  \/ \E c \in ArgClassifications :
       _az_log_should_write(c) /\ UNCHANGED pipevars
  \/ \E c \in ArgClassifications, m \in Messages :
       _az_log_write(c, m) /\ UNCHANGED pipevars
  \/ ReadCallback /\ UNCHANGED pipevars
  \/ ReadClassifications /\ UNCHANGED pipevars
  \/ CheckSnapshot /\ UNCHANGED pipevars
  \/ ScanStep /\ UNCHANGED pipevars
  \/ Return /\ UNCHANGED pipevars

\* The registry and the dispatcher under every interleaving.
Spec == Init /\ [][Next]_vars

PipelineInit == LogInit /\ PipeInit

PipelineNext ==
  \E r \in Runs :
    \/ az_storage_blobs_blob_upload(r) /\ UNCHANGED logvars
    \/ PolicyShortCircuit(r) /\ UNCHANGED logvars
    \/ PolicyDelegate(r) /\ UNCHANGED logvars
    \/ PolicyResume(r) /\ UNCHANGED logvars
    \/ RetryEnter(r) /\ UNCHANGED logvars
    \/ RetryResume(r) /\ UNCHANGED logvars
    \/ Transport(r) /\ UNCHANGED logvars
    \/ Finish(r) /\ UNCHANGED logvars

\* The calls made through an assembled pipeline.
PipelineSpec == PipelineInit /\ [][PipelineNext]_vars

\* One step of the engine or of a policy in call r.
RunStep(r) ==
  /\ \/ PolicyShortCircuit(r) \/ PolicyDelegate(r) \/ PolicyResume(r)
     \/ RetryEnter(r) \/ RetryResume(r) \/ Transport(r)
  /\ UNCHANGED logvars

\* Every operation is synchronous and runs on the calling thread: a call
\* that can take a step takes one.
PipelineFairSpec == PipelineSpec /\ \A r \in Runs : WF_vars(RunStep(r))

\* A build with or without logging; the caller's client object is not
\* initialised yet.
ClientInit ==
  /\ LogInit
  /\ policies = << >>
  /\ client = Uninitialized
  /\ init_result = NotCalled
  /\ AZ_NO_LOGGING \in BOOLEAN
  /\ run = [r \in Runs |-> IdleRun]

ClientNext ==
  \/ \E endpoint \in Endpoints, credential \in Credentials,
         options \in ClientOptions, scopes \in SetScopesResults :
       /\ az_storage_blobs_blob_client_init(endpoint, credential, options, scopes)
       /\ UNCHANGED logvars
  \/ PipelineNext

\* The life of one client object: initialisation, uploads, initialisation
\* again.
ClientSpec == ClientInit /\ [][ClientNext]_vars

(***************************************************************************)
(* Properties of the dispatcher and the registry                           *)
(***************************************************************************)

\* Offset of the first sentinel of a sentinel-terminated array.
FirstSentinel(a) ==
  CHOOSE i \in 1..Len(a) :
    /\ a[i] = AZ_LOG_END_OF_LIST
    /\ \A j \in 1..(i - 1) : a[j] # AZ_LOG_END_OF_LIST

\* The entries of an array that precede its first sentinel.
BeforeSentinel(a) == { a[i] : i \in 1..(FirstSentinel(a) - 1) }

\* The engine has read both slots.
HasSnapshot == pc \in { "check", "scan", "return" }

\* C1: with a callback and a sentinel-terminated filter F read by the call,
\* the engine returns true exactly when the classification equals an entry of
\* F before F's first sentinel (so never for the empty filter, and never
\* because of an entry after the first sentinel).
C1_TrueIffBeforeSentinel ==
  (pc = "return" /\ snapshot.cb # NULL_FN /\ snapshot.cl # NULL)
    => (retval <=> classification \in BeforeSentinel(snapshot.cl.arr))

\* C1 witness: the classification occurs in the filter only after the first
\* sentinel, and the engine has answered no.
C1_Witness ==
  /\ pc = "return"
  /\ snapshot.cb # NULL_FN
  /\ snapshot.cl =
       CallerArray(<< AZ_LOG_END_OF_LIST, "AZ_LOG_HTTP_REQUEST",
                      AZ_LOG_END_OF_LIST >>)
  /\ classification = "AZ_LOG_HTTP_REQUEST"
  /\ retval = FALSE

\* C2: a call that finds no callback registered returns false and invokes
\* nothing, whatever filter is registered (none, empty, or one holding the
\* classification).
C2_NoCallbackNoEmission ==
  (pc \in { "read_classifications", "check", "scan", "return" }
     /\ snapshot.cb = NULL_FN)
    => /\ invoked = << >>
       /\ pc # "scan"
       /\ (pc = "return" => retval = FALSE)

\* C2 witness: write() of a classification the registered filter holds has
\* returned with no callback registered.
C2_Witness ==
  /\ pc = "return"
  /\ log_it
  /\ snapshot.cb = NULL_FN
  /\ snapshot.cl.base = "caller"
  /\ classification \in BeforeSentinel(snapshot.cl.arr)
  /\ retval = FALSE
  /\ invoked = << >>

\* C3: a call that finds a callback and no filter registered returns true for
\* every known classification.
C3_DefaultOpen ==
  (pc = "return" /\ snapshot.cb # NULL_FN /\ snapshot.cl = NULL
     /\ classification \in KnownClassifications)
    => retval = TRUE

\* C3 witness: should_write of a known classification has returned true with
\* a callback and a null filter slot.
C3_Witness ==
  /\ pc = "return"
  /\ ~log_it
  /\ snapshot.cb # NULL_FN
  /\ snapshot.cl = NULL
  /\ _az_log_classifications = NULL
  /\ classification = "AZ_LOG_HTTP_RETRY"
  /\ retval = TRUE

\* C4: write() invokes the callback exactly when the engine answers yes, and
\* then once, with the callback it captured and the classification and the
\* message it was given; should_write() never invokes it.
C4_EmitsOnceIffYes ==
  pc = "return"
    => /\ (invoked # << >>) <=> (log_it /\ retval)
       /\ invoked # << >>
            => invoked = << [fn |-> snapshot.cb,
                             classification |-> classification,
                             message |-> message] >>

\* C4 witness: write() has returned after one invocation although the
\* classification occurs twice in the filter.
C4_Witness ==
  /\ pc = "return"
  /\ log_it
  /\ snapshot.cl =
       CallerArray(<< "AZ_LOG_HTTP_REQUEST", "AZ_LOG_HTTP_REQUEST",
                      AZ_LOG_END_OF_LIST >>)
  /\ classification = "AZ_LOG_HTTP_REQUEST"
  /\ message = "m1"
  /\ Len(invoked) = 1

\* C5: a decision that reads the filter slot after set_classifications(F2)
\* has replaced F1 reads F2, and the array it walks is F2 and no other.
C5_LastWriterWins ==
  HasSnapshot
    => /\ snapshot.cl = snapshot.set
       /\ (pc = "scan" /\ snapshot.set # NULL) => ScannedArray = snapshot.set

\* C5 witness: the latest registration replaced a different filter by a
\* non-null F2, and a decision that read the slot afterwards is walking F2.
C5_Witness ==
  /\ pc = "scan"
  /\ cls = 2
  /\ replaced_other
  /\ last_set.base = "caller"
  /\ snapshot.set = last_set
  /\ ScannedArray = last_set

\* C6 as stated: the pair a decision reads is a pair the registry held at one
\* instant between the decision's two reads.  (watch follows one freely
\* chosen filter value; the step that reads the filter slot must not read the
\* watched value unless it was held together with the captured callback.)
C6_PairHeldAtOneInstant ==
  [][ (pc = "read_classifications" /\ pc' = "check")
        => ~(_az_log_classifications = watch.f /\ ~watch.held) ]_vars

\* C6 amended: a decision reads each slot once and afterwards works on its
\* own copies only: the array it walks, the callback it invokes and the
\* answer it gives are those of the values it read, whatever is registered
\* meanwhile.
C6_DecidesOnItsCopies ==
  HasSnapshot
    => /\ callback = snapshot.cb
       /\ pc = "scan"
            => ScannedArray =
                 IF snapshot.cl = NULL
                   THEN AddressOfClassification(classification)
                   ELSE snapshot.cl
       /\ pc = "return"
            => (retval <=>
                  /\ snapshot.cb # NULL_FN
                  /\ IF snapshot.cl = NULL
                       THEN classification # AZ_LOG_END_OF_LIST
                       ELSE classification \in BeforeSentinel(snapshot.cl.arr))

\* C6 witness: both slots were re-registered after the decision read them and
\* the decision is still walking the filter it read.
C6_Witness ==
  /\ pc = "scan"
  /\ cls = 2
  /\ snapshot.cl.base = "caller"
  /\ _az_log_message_callback # snapshot.cb
  /\ _az_log_classifications # snapshot.cl
  /\ ScannedArray = snapshot.cl

\* Every entry before the first sentinel belongs to the known set.
WellFormed(p) ==
  p = NULL \/ \A x \in BeforeSentinel(p.arr) : x \in KnownClassifications

\* The arguments callers pass to set_classifications.
RegistrationArguments ==
  FilterPointers \cup { CallerArray(a) : a \in MalformedArrays }

WellFormedArguments == { p \in RegistrationArguments : WellFormed(p) }

MalformedArguments == RegistrationArguments \ WellFormedArguments

\* C13: in a build with precondition checking, set_classifications installs
\* its argument when that is null or a filter all of whose entries before
\* the sentinel are known (the empty filter included), and raises no
\* failure; for a filter with an entry outside the known set before the
\* sentinel it raises the precondition failure and leaves the slot as it was.
\* (A step that registers p records p as the latest registered filter or
\* raises the failure, so no other step needs to be looked at.)
C13_InstallsValidRejectsMalformed ==
  [][ /\ \A p \in WellFormedArguments :
           ( /\ last_set' = p \/ precondition_failed' # precondition_failed
             /\ az_log_set_classifications(p) )
             => /\ _az_log_classifications' = p
                /\ precondition_failed' = precondition_failed
      /\ \A p \in MalformedArguments :
           ( /\ last_set' = p \/ precondition_failed' # precondition_failed
             /\ az_log_set_classifications(p) )
             => /\ precondition_failed'
                /\ _az_log_classifications' = _az_log_classifications ]_vars

\* C13 witness: the empty filter was installed, a later registration of a
\* malformed filter failed its precondition, and the slot still holds the
\* empty filter.
C13_Witness ==
  /\ precondition_failed
  /\ _az_log_classifications = CallerArray(<< AZ_LOG_END_OF_LIST >>)
  /\ last_set = _az_log_classifications

\* The answer of should_write(c) for a registry holding callback cb and
\* filter f.
ShouldLog(cb, f, c) ==
  /\ cb # NULL_FN
  /\ IF f = NULL THEN c # AZ_LOG_END_OF_LIST
                 ELSE c \in BeforeSentinel(f.arr)

\* C14: registering again the filter that the latest set_classifications
\* registered, or the callback the callback slot already holds from the
\* latest set_callback, leaves both slots as they were, and with them the
\* answer of should_write for every classification.
C14_RegistrationIdempotent ==
  [][ /\ \A p \in FilterPointers :
           ( /\ last_set = p
             /\ _az_log_classifications = p
             /\ az_log_set_classifications(p) )
             => /\ registry' = registry
                /\ \A c \in ArgClassifications :
                     ShouldLog(_az_log_message_callback',
                               _az_log_classifications', c)
                       <=> ShouldLog(_az_log_message_callback,
                                     _az_log_classifications, c)
      /\ \A fn \in Callbacks \cup { NULL_FN } :
           (_az_log_message_callback = fn /\ az_log_set_callback(fn))
             => registry' = registry ]_vars

\* C14 witness: the latest set_classifications found its own argument, a
\* filter, already in the slot, and a should_write that read the registry
\* afterwards has answered yes.
C14_Witness ==
  /\ ~replaced_other
  /\ last_set.base = "caller"
  /\ _az_log_classifications = last_set
  /\ pc = "return"
  /\ ~log_it
  /\ snapshot.cl = last_set
  /\ retval

\* C15: a step that changes the filter slot is no set_callback, a step that
\* changes the callback slot is no set_classifications, and a step that
\* changes either slot is no step of should_write or write but one of the
\* two registrations (of the filter then recorded as the latest, or of any
\* other); should_write never invokes the callback.
C15_SlotsIndependent ==
  [][ /\ _az_log_classifications' # _az_log_classifications
            => \A fn \in Callbacks \cup { NULL_FN } : ~az_log_set_callback(fn)
      /\ _az_log_message_callback' # _az_log_message_callback
            => \A p \in RegistrationArguments : ~az_log_set_classifications(p)
      /\ registry' # registry
            => /\ ~ \/ \E c \in ArgClassifications : _az_log_should_write(c)
                    \/ \E c \in ArgClassifications, m \in Messages :
                         _az_log_write(c, m)
                    \/ ReadCallback \/ ReadClassifications \/ CheckSnapshot
                    \/ ScanStep \/ Return
               /\ \/ \E fn \in Callbacks \cup { NULL_FN } :
                       az_log_set_callback(fn)
                  \/ az_log_set_classifications(last_set')
                  \/ \E p \in FilterPointers : az_log_set_classifications(p)
      /\ ~log_it' => invoked' = << >> ]_vars

\* C15 witness: a callback was registered while a should_write was under
\* way; the filter slot still holds the filter the call read, and the call
\* has answered yes without invoking anything.
C15_Witness ==
  /\ pc = "return"
  /\ ~log_it
  /\ retval
  /\ invoked = << >>
  /\ snapshot.cb = "cb2"
  /\ _az_log_message_callback = "cb1"
  /\ snapshot.cl.base = "caller"
  /\ _az_log_classifications = snapshot.cl

\* C16: whatever is registered or cleared while a write is under way, the
\* function it invokes is the callback it read at its start and is not
\* null, and it invokes it at most once; a write that read a cleared slot
\* invokes nothing.
C16_NeverInvokesNull ==
  /\ Len(invoked) <= 1
  /\ \A k \in 1..Len(invoked) :
       /\ invoked[k].fn # NULL_FN
       /\ invoked[k].fn = snapshot.cb
  /\ snapshot.cb = NULL_FN => invoked = << >>

\* C16 witness: the callback was cleared after a write had read it; the
\* write has emitted once to the callback registered before the clear.
C16_Witness ==
  /\ pc = "return"
  /\ log_it
  /\ _az_log_message_callback = NULL_FN
  /\ invoked = << [fn |-> "cb1", classification |-> classification,
                   message |-> message] >>

(***************************************************************************)
(* Properties of the pipeline                                              *)
(***************************************************************************)

\* The policies that mark the request: all but retry and transport.
Marking == { i \in 1..Len(policies) : Kind(policies[i]) = "passthrough" }

\* Offset of the first occurrence of x in s.
FirstPos(s, x) ==
  CHOOSE i \in 1..Len(s) : s[i] = x /\ \A j \in 1..(i - 1) : s[j] # x

\* C7: in one run the policies are entered in assembly order, the first
\* first and the transport last, so the transport sees the markers in that
\* order (A's before B's; in the blob client api-version, telemetry,
\* credential), and post-processing runs in the reverse order (B's before
\* A's).
C7_AssemblyOrderDownReverseUp ==
  \A r \in Runs :
    /\ \A k \in 1..Len(run[r].stack) : run[r].stack[k] = k
    /\ run[r].transport_calls > 0
         => /\ \A i \in Marking : \E k \in 1..Len(run[r].seen) :
                 run[r].seen[k] = policies[i]
            /\ \A i, j \in Marking :
                 i < j => FirstPos(run[r].seen, policies[i])
                            < FirstPos(run[r].seen, policies[j])
            /\ policies = MarkerPolicies => run[r].seen = << "A", "B" >>
            /\ policies # MarkerPolicies
                 => SubSeq(run[r].seen, 1, 3)
                      = << "apiversion", "telemetry", "credential" >>
    /\ \A a, b \in 1..Len(run[r].posts) :
         a < b => run[r].posts[a].policy > run[r].posts[b].policy

\* C7 witness: a run of [A, B, transport] has ended; the transport saw A's
\* marker, then B's, and B post-processed before A.
C7_Witness ==
  \E r \in Runs :
    /\ policies = MarkerPolicies
    /\ run[r].phase = "done"
    /\ run[r].seen = << "A", "B" >>
    /\ run[r].posts = << [policy |-> 2, saw |-> AZ_OK],
                         [policy |-> 1, saw |-> AZ_OK] >>

C9_RetryBoundLastFailure ==
  \A r \in Runs :
    /\ run[r].chain_calls <= max_retries
    /\ run[r].transport_calls <= max_retries
    /\ (run[r].phase = "done" /\ run[r].chain_calls > 0 /\ Failed(run[r].result))
         => /\ run[r].result = run[r].handed_to_retry
            /\ run[r].result = run[r].produced

\* C9 witness: every one of the max_retries attempts failed and the run
\* has ended in a transport failure.
C9_Witness ==
  \E r \in Runs :
    /\ run[r].phase = "done"
    /\ run[r].chain_calls = max_retries
    /\ run[r].transport_calls = max_retries
    /\ run[r].result = "AZ_ERROR_HTTP_RESPONSE_OVERFLOW"

C11_PipelineFixedTransportLast ==
  policies # << >>
    => /\ policies =
            IF AZ_NO_LOGGING
              THEN << "apiversion", "telemetry", "retry", "credential",
                      "transport" >>
              ELSE << "apiversion", "telemetry", "retry", "credential",
                      "logging", "transport" >>
       /\ Kind(policies[Len(policies)]) = "transport"
       /\ \A i \in 1..(Len(policies) - 1) : Kind(policies[i]) # "transport"

\* C11 witness: through the assembled pipeline one call has ended after two
\* transport attempts and another has failed while building its request.
C11_Witness ==
  /\ policies = BlobClientPolicies(FALSE)
  /\ run["r1"].phase = "done"
  /\ run["r1"].transport_calls = 2
  /\ run["r2"].phase = "done"
  /\ run["r2"].result = AZ_ERROR_NOT_ENOUGH_SPACE
  /\ run["r2"].chain_calls = 0
  /\ run["r2"].short_circuit = 0

\* C17 as stated: an initialisation that returns a failure (the endpoint does
\* not fit the endpoint buffer, or setting the credential's scopes fails)
\* leaves the caller's client object, its pipeline, options and credential
\* included, as it was before the call.
C17_FailedInitLeavesClient ==
  [][ \A endpoint \in Endpoints, credential \in Credentials,
         options \in ClientOptions, scopes \in SetScopesResults :
        ( /\ az_storage_blobs_blob_client_init(endpoint, credential, options,
                                               scopes)
          /\ Failed(init_result') )
          => /\ client' = client
             /\ policies' = policies ]_vars

\* C17 witness: an initialisation with an endpoint that does not fit has
\* returned the capacity error, and the object holds an assembled pipeline,
\* the options and the credential of that call and an empty endpoint buffer.
C17_Witness ==
  /\ init_result = AZ_ERROR_NOT_ENOUGH_SPACE
  /\ policies = BlobClientPolicies(AZ_NO_LOGGING)
  /\ client = [ endpoint |-> EmptyEndpointBuffer, options |-> "options2",
                credential |-> "credential2" ]

\* C18: every call the engine has started ends, and ends once: it reaches
\* its outcome, which is a success (the response) or a failure with no
\* policy left on the stack, and that outcome stands until the caller has
\* taken it.
C18_EveryRunEndsOnce ==
  /\ \A r \in Runs :
       /\ [](run[r].phase \in { "enter", "resume" }
              => <>(run[r].phase = "done"))
       /\ [](run[r].phase = "done" => run[r].stack = << >>)
  /\ [][ \A r \in Runs :
           run[r].phase = "done" => run'[r] \in { run[r], IdleRun } ]_vars

\* C18 witness: a call has ended in a transport failure after max_retries
\* attempts while the other call is still on its way down.
C18_Witness ==
  /\ run["r1"].phase = "done"
  /\ run["r1"].attempt = max_retries
  /\ run["r1"].result = "AZ_ERROR_HTTP_ADAPTER"
  /\ run["r2"].phase = "enter"
  /\ Len(run["r2"].stack) = 2

\* How often call r has entered position i.
Entered(r, i) ==
  Cardinality({ k \in 1..Len(run[r].trace) : run[r].trace[k] = i })

\* C19: the blob client's pipeline is api-version, telemetry, retry,
\* credential, logging (in a build with logging), transport.  In one call
\* api-version, telemetry and retry are entered at most once, and once when
\* the policy before them delegated; the credential policy is entered once
\* in every attempt of the retry policy, logging and transport at most once
\* per attempt and once in every attempt but possibly the last, which a
\* policy before them may have cut short.  A failure that api-version or
\* telemetry returned is not retried, never reaches the transport, and is
\* the result of the call.
C19_BlobPipelineOrderPerAttempt ==
  policies # MarkerPolicies
    => /\ policies =
            << "apiversion", "telemetry", "retry", "credential" >>
              \o (IF AZ_NO_LOGGING THEN << >> ELSE << "logging" >>)
              \o << "transport" >>
       /\ \A r \in Runs :
            /\ \A i \in 1..3 : Entered(r, i) <= 1
            /\ (run[r].phase = "done" /\ run[r].short_circuit = 0
                  /\ run[r].trace # << >>)
                 => \A i \in 1..3 : Entered(r, i) = 1
            /\ Entered(r, 4) = run[r].chain_calls
            /\ \A i \in 5..Len(policies) :
                 /\ Entered(r, i) <= run[r].chain_calls
                 /\ Entered(r, i) >= run[r].chain_calls - 1
            /\ Entered(r, Len(policies)) =
                 run[r].transport_calls
                   + (IF run[r].phase = "enter" /\ Top(r) = Len(policies)
                        THEN 1 ELSE 0)
            /\ (run[r].phase = "done" /\ run[r].short_circuit = 0)
                 => \A i \in 4..Len(policies) :
                      Entered(r, i) = run[r].chain_calls
            /\ run[r].short_circuit \in { 1, 2 }
                 => /\ run[r].chain_calls = 0
                    /\ run[r].transport_calls = 0
                    /\ \A i \in 3..Len(policies) : Entered(r, i) = 0
                    /\ run[r].phase \in { "resume", "done" }
                    /\ run[r].result \in PolicyFailures

\* C19 witness: a call through the pipeline with logging has ended with a
\* success on its third attempt: api-version, telemetry and retry were
\* entered once, credential, logging and transport three times.
C19_Witness ==
  \E r \in Runs :
    /\ policies = BlobClientPolicies(FALSE)
    /\ run[r].phase = "done"
    /\ run[r].result = AZ_OK
    /\ run[r].trace = << 1, 2, 3, 4, 5, 6, 4, 5, 6, 4, 5, 6 >>
    /\ run[r].chain_calls = 3

\* C20: upload enters the pipeline at most once per call, and only with a
\* request to which x-ms-blob-type, Content-Length and Content-Type were
\* appended in that order after the URL copy and the request initialisation
\* succeeded; when one of these steps fails the call ends at once with the
\* failure, no policy is invoked in it, and the pipeline is as before.
C20_UploadStartsPipelineOnce ==
  /\ [](\A r \in Runs :
          /\ Entered(r, 1) <= 1
          /\ run[r].trace # << >>
               => run[r].headers =
                    << "x-ms-blob-type", "Content-Length", "Content-Type" >>
          /\ ( /\ run[r].phase # "idle"
               /\ run[r].headers #
                    << "x-ms-blob-type", "Content-Length", "Content-Type" >> )
               => /\ run[r].phase = "done"
                  /\ Failed(run[r].result)
                  /\ run[r].trace = << >>
                  /\ run[r].marks = << >>
                  /\ run[r].chain_calls = 0
                  /\ run[r].transport_calls = 0)
  /\ [][ \A r \in Runs :
           az_storage_blobs_blob_upload(r)
             => /\ policies' = policies
                /\ IF run'[r].phase = "enter"
                     THEN /\ run'[r].stack = << 1 >>
                          /\ run'[r].headers =
                               << "x-ms-blob-type", "Content-Length",
                                  "Content-Type" >>
                     ELSE /\ run'[r].phase = "done"
                          /\ run'[r].stack = << >>
                          /\ Failed(run'[r].result)
                          /\ run'[r].headers \in
                               { << >>, << "x-ms-blob-type" >>,
                                 << "x-ms-blob-type", "Content-Length" >> } ]_vars

\* C20 witness: one upload has failed when appending Content-Type and
\* ended without entering a policy; another, over the same pipeline, built
\* its request and is at the transport.
C20_Witness ==
  /\ run["r1"].phase = "done"
  /\ run["r1"].headers = << "x-ms-blob-type", "Content-Length" >>
  /\ run["r1"].result = AZ_ERROR_NOT_ENOUGH_SPACE
  /\ run["r1"].trace = << >>
  /\ run["r2"].phase = "enter"
  /\ run["r2"].stack = << 1, 2, 3 >>
  /\ policies = MarkerPolicies

\* What one policy invocation amounts to for its caller: the positions
\* entered, the number of transport invocations and the result.
Outcome(trace, calls, result) ==
  [ trace |-> trace, calls |-> calls, result |-> result ]

\* o, then o2.
Then(o, o2) == Outcome(o.trace \o o2.trace, o.calls + o2.calls, o2.result)

RECURSIVE Chain(_, _), Attempts(_, _, _)
\* A call that executes alone, as nested delegation: the outcomes of
\* invoking position i of pipeline p.
Chain(p, i) ==
  IF Kind(p[i]) = "transport"
    THEN { Outcome(<< i >>, 1, res) : res \in { AZ_OK } \cup TransportFailures }
  ELSE IF Kind(p[i]) = "retry"
    THEN { Then(Outcome(<< i >>, 0, AZ_OK), o) : o \in Attempts(p, i, max_retries) }
  ELSE { Outcome(<< i >>, 0, f) : f \in PolicyFailures }
         \cup { Then(Outcome(<< i >>, 0, AZ_OK), o) : o \in Chain(p, i + 1) }

\* The outcomes of the retry policy at position i with n attempts left.
Attempts(p, i, n) ==
  LET first == Chain(p, i + 1)
  IN  { o \in first : n = 1 \/ o.result \notin TransportFailures }
        \cup (IF n = 1 THEN { }
              ELSE { Then(o, o2) :
                       o \in { o \in first : o.result \in TransportFailures },
                       o2 \in Attempts(p, i, n - 1) })

\* The outcomes of an upload that executes alone.
AloneOutcomes ==
  [ p \in AssembledPipelines |->
      { Outcome(<< >>, 0, AZ_ERROR_NOT_ENOUGH_SPACE) } \cup Chain(p, 1) ]

\* C12: under every interleaving of two calls through one pipeline, the
\* order in which a call entered the policies, the number of its transport
\* invocations and its result are those of a call that executed alone.
C12_RunsIndependent ==
  \A r \in Runs :
    run[r].phase = "done"
      => Outcome(run[r].trace, run[r].transport_calls, run[r].result)
           \in AloneOutcomes[policies]

\* C12 witness: one call has ended with a success on its second attempt
\* while the other, started meanwhile, is in its third attempt.
C12_Witness ==
  /\ policies = BlobClientPolicies(FALSE)
  /\ run["r1"].phase = "done"
  /\ run["r1"].result = AZ_OK
  /\ run["r1"].trace = << 1, 2, 3, 4, 5, 6, 4, 5, 6 >>
  /\ run["r2"].attempt = 3
  /\ run["r2"].stack = << 1, 2, 3, 4, 5 >>

====
